---- MODULE Spec2Model ----
(***************************************************************************)
(* LFG dungeon queue simulator (src/main.cpp): one coordinator thread      *)
(* (main), one party_former thread and one detached dungeon_run thread per *)
(* formed party, all synchronised by g_mutex and the condition variable cv.*)
(***************************************************************************)
EXTENDS Integers, Sequences, FiniteSets

\* ---------------------------------------------------------------- bounds
MaxN == 2
MaxTank == 2
MaxHealer == 2
MaxDps == 6
MaxTime == 2

\* at most one dungeon_run per tank of the initial queue
MaxRuns == MaxTank

VARIABLES
    n,                  \* main's local n: size of instances
    initial,            \* the queue as read from the input (ghost)
    tank_queue, healer_queue, dps_queue,
    min_time, max_time,
    instances,          \* 0..n-1 -> DungeonInstance
    active_parties,
    all_players_queued,
    g_mutex,            \* the thread that holds g_mutex, or NoThread
    main_pc,            \* position of main
    former_pc,          \* position of party_former
    instance_id,        \* party_former's local instance_id
    runs                \* the dungeon_run threads, in spawn order

vars == <<n, initial, tank_queue, healer_queue, dps_queue, min_time, max_time,
          instances, active_parties, all_players_queued, g_mutex, main_pc,
          former_pc, instance_id, runs>>

\* ------------------------------------------------------------- threads
NoThread == <<>>
MainThread == <<"main">>
FormerThread == <<"party_former">>
RunThread(k) == <<"dungeon_run", k>>

\* struct DungeonInstance and its constructor
DungeonInstance(i) ==
    [id |-> i, status |-> "empty", parties_served |-> 0, total_time_served |-> 0]

\* ------------------------------------------------------------- helpers
can_form_party_weak ==
    tank_queue >= 1 /\ healer_queue >= 1 /\ dps_queue >= 1

can_form_party ==
    tank_queue >= 1 /\ healer_queue >= 1 /\ dps_queue >= 3

EmptyIds == {i \in DOMAIN instances : instances[i].status = "empty"}

Lowest(S) == CHOOSE i \in S : \A j \in S : i <= j

find_free_instance_any ==
    IF DOMAIN instances = {} THEN -1 ELSE Lowest(DOMAIN instances)

Highest(S) == CHOOSE i \in S : \A j \in S : i >= j

find_free_instance_highest ==
    IF EmptyIds = {} THEN -1 ELSE Highest(EmptyIds)

find_free_instance ==
    IF EmptyIds = {} THEN -1 ELSE Lowest(EmptyIds)

\* the predicate of main's cv.wait
MainWaitPred_noactive == ~can_form_party

MainWaitPred == active_parties = 0 /\ ~can_form_party

\* the predicate of party_former's cv.wait
FormerWaitPred ==
    LET can_make_party == can_form_party
        is_finished == active_parties = 0 /\ ~can_make_party /\ all_players_queued
    IN  (can_make_party /\ find_free_instance # -1) \/ is_finished

\* party_former's exit test
FormerExitCond == active_parties = 0 /\ ~can_form_party

\* party_former's double check before it forms a party
FormerCanAssign(id) == can_form_party /\ id # -1

\* the queue after one party has been taken from it
ConsumedQueue_short == <<tank_queue - 1, healer_queue - 1, dps_queue - 2>>

ConsumedQueue == <<tank_queue - 1, healer_queue - 1, dps_queue - 3>>

\* active_parties after a dungeon_run has released its instance
ReleasedCount_kept == active_parties

ReleasedCount == active_parties - 1

\* total_time_served after a run of t seconds has been added to it
AddedTime_lost(total, t) == total

AddedTime(total, t) == total + t

\* the values get_random_time() can return
get_random_time_wide == min_time..(max_time + 1)

get_random_time == min_time..max_time

\* a notification that reaches main only
Wake_mainonly(pc) == IF pc = "m_waiting" THEN "m_woken" ELSE pc

\* cv.notify_all: a thread blocked in cv.wait becomes runnable
Wake(pc) ==
    IF pc = "m_waiting" THEN "m_woken"
    ELSE IF pc = "f_waiting" THEN "f_woken"
    ELSE pc

\* ---------------------------------------------------------------- Init
\* the inputs main reads: every valid input within the bounds
BoundedInput ==
    /\ n \in 1..MaxN
    /\ tank_queue \in 0..MaxTank
    /\ healer_queue \in 0..MaxHealer
    /\ dps_queue \in 0..MaxDps
    /\ min_time \in 1..MaxTime
    /\ max_time \in min_time..MaxTime

\* the input of Scenario D, which lies outside the bounds
ScenarioDInput ==
    /\ n = 3
    /\ tank_queue = 5
    /\ healer_queue = 5
    /\ dps_queue = 20
    /\ min_time = 1
    /\ max_time = 1

\* the state when main is about to start former_thread
Constructed ==
    /\ initial = [tank |-> tank_queue, healer |-> healer_queue, dps |-> dps_queue]
    /\ instances = [i \in 0..(n - 1) |-> DungeonInstance(i)]
    /\ active_parties = 0
    /\ all_players_queued = FALSE
    /\ g_mutex = NoThread
    /\ main_pc = "m_spawn"
    /\ former_pc = "f_none"
    /\ instance_id = -1
    /\ runs = <<>>

Init == (BoundedInput \/ ScenarioDInput) /\ Constructed

\* ---------------------------------------------------------------- main
MainSpawn ==
    /\ main_pc = "m_spawn"
    /\ main_pc' = "m_lock"
    /\ former_pc' = "f_lock"
    /\ UNCHANGED <<n, initial, tank_queue, healer_queue, dps_queue, min_time,
                   max_time, instances, active_parties, all_players_queued,
                   g_mutex, instance_id, runs>>

MainLock ==
    /\ main_pc = "m_lock"
    /\ g_mutex = NoThread
    /\ g_mutex' = MainThread
    /\ main_pc' = "m_set"
    /\ UNCHANGED <<n, initial, tank_queue, healer_queue, dps_queue, min_time,
                   max_time, instances, active_parties, all_players_queued,
                   former_pc, instance_id, runs>>

MainSetQueued ==
    /\ main_pc = "m_set"
    /\ all_players_queued' = TRUE
    /\ main_pc' = "m_notify"
    /\ UNCHANGED <<n, initial, tank_queue, healer_queue, dps_queue, min_time,
                   max_time, instances, active_parties, g_mutex, former_pc,
                   instance_id, runs>>

MainNotify ==
    /\ main_pc = "m_notify"
    /\ former_pc' = Wake(former_pc)
    /\ main_pc' = "m_wait"
    /\ UNCHANGED <<n, initial, tank_queue, healer_queue, dps_queue, min_time,
                   max_time, instances, active_parties, all_players_queued,
                   g_mutex, instance_id, runs>>

\* cv.wait(lock, pred) with the lock held: return if pred, else unlock and block
MainWait ==
    /\ main_pc = "m_wait"
    /\ IF MainWaitPred
         THEN main_pc' = "m_join" /\ g_mutex' = g_mutex
         ELSE main_pc' = "m_waiting" /\ g_mutex' = NoThread
    /\ UNCHANGED <<n, initial, tank_queue, healer_queue, dps_queue, min_time,
                   max_time, instances, active_parties, all_players_queued,
                   former_pc, instance_id, runs>>

\* a woken cv.wait takes the lock again before it tests its predicate
MainReacquire ==
    /\ main_pc = "m_woken"
    /\ g_mutex = NoThread
    /\ g_mutex' = MainThread
    /\ main_pc' = "m_wait"
    /\ UNCHANGED <<n, initial, tank_queue, healer_queue, dps_queue, min_time,
                   max_time, instances, active_parties, all_players_queued,
                   former_pc, instance_id, runs>>

\* former_thread.join(), called with the lock still held
MainJoin ==
    /\ main_pc = "m_join"
    /\ former_pc = "f_done"
    /\ main_pc' = "m_summary"
    /\ UNCHANGED <<n, initial, tank_queue, healer_queue, dps_queue, min_time,
                   max_time, instances, active_parties, all_players_queued,
                   g_mutex, former_pc, instance_id, runs>>

\* the final summary, then return 0 (the unique_lock is destroyed)
MainSummary ==
    /\ main_pc = "m_summary"
    /\ main_pc' = "m_done"
    /\ g_mutex' = NoThread
    /\ UNCHANGED <<n, initial, tank_queue, healer_queue, dps_queue, min_time,
                   max_time, instances, active_parties, all_players_queued,
                   former_pc, instance_id, runs>>

\* -------------------------------------------------------- party_former
FormerLock ==
    /\ former_pc = "f_lock"
    /\ g_mutex = NoThread
    /\ g_mutex' = FormerThread
    /\ former_pc' = "f_wait"
    /\ UNCHANGED <<n, initial, tank_queue, healer_queue, dps_queue, min_time,
                   max_time, instances, active_parties, all_players_queued,
                   main_pc, instance_id, runs>>

FormerWait ==
    /\ former_pc = "f_wait"
    /\ IF FormerWaitPred
         THEN former_pc' = "f_check" /\ g_mutex' = g_mutex
         ELSE former_pc' = "f_waiting" /\ g_mutex' = NoThread
    /\ UNCHANGED <<n, initial, tank_queue, healer_queue, dps_queue, min_time,
                   max_time, instances, active_parties, all_players_queued,
                   main_pc, instance_id, runs>>

FormerReacquire ==
    /\ former_pc = "f_woken"
    /\ g_mutex = NoThread
    /\ g_mutex' = FormerThread
    /\ former_pc' = "f_wait"
    /\ UNCHANGED <<n, initial, tank_queue, healer_queue, dps_queue, min_time,
                   max_time, instances, active_parties, all_players_queued,
                   main_pc, instance_id, runs>>

\* the exit test; return destroys the unique_lock
FormerCheckExit ==
    /\ former_pc = "f_check"
    /\ IF FormerExitCond
         THEN former_pc' = "f_done" /\ g_mutex' = NoThread
         ELSE former_pc' = "f_find" /\ g_mutex' = g_mutex
    /\ UNCHANGED <<n, initial, tank_queue, healer_queue, dps_queue, min_time,
                   max_time, instances, active_parties, all_players_queued,
                   main_pc, instance_id, runs>>

FormerFind ==
    /\ former_pc = "f_find"
    /\ instance_id' = find_free_instance
    /\ former_pc' = IF FormerCanAssign(instance_id') THEN "f_consume" ELSE "f_unlock"
    /\ UNCHANGED <<n, initial, tank_queue, healer_queue, dps_queue, min_time,
                   max_time, instances, active_parties, all_players_queued,
                   g_mutex, main_pc, runs>>

FormerConsume ==
    /\ former_pc = "f_consume"
    /\ tank_queue' = ConsumedQueue[1]
    /\ healer_queue' = ConsumedQueue[2]
    /\ dps_queue' = ConsumedQueue[3]
    /\ former_pc' = "f_assign"
    /\ UNCHANGED <<n, initial, min_time, max_time, instances, active_parties,
                   all_players_queued, g_mutex, main_pc, instance_id, runs>>

FormerAssign ==
    /\ former_pc = "f_assign"
    /\ instances' = [instances EXCEPT ![instance_id].status = "active"]
    /\ former_pc' = "f_inc"
    /\ UNCHANGED <<n, initial, tank_queue, healer_queue, dps_queue, min_time,
                   max_time, active_parties, all_players_queued, g_mutex,
                   main_pc, instance_id, runs>>

FormerInc ==
    /\ former_pc = "f_inc"
    /\ active_parties' = active_parties + 1
    /\ former_pc' = "f_spawn"
    /\ UNCHANGED <<n, initial, tank_queue, healer_queue, dps_queue, min_time,
                   max_time, instances, all_players_queued, g_mutex, main_pc,
                   instance_id, runs>>

\* std::thread(dungeon_run, instance_id).detach()
FormerSpawn ==
    /\ former_pc = "f_spawn"
    /\ runs' = Append(runs, [instance_id |-> instance_id,
                             time_in_dungeon |-> 0, pc |-> "d_start"])
    /\ former_pc' = "f_unlock"
    /\ UNCHANGED <<n, initial, tank_queue, healer_queue, dps_queue, min_time,
                   max_time, instances, active_parties, all_players_queued,
                   g_mutex, main_pc, instance_id>>

\* end of the loop body: the unique_lock and instance_id go out of scope
FormerUnlock ==
    /\ former_pc = "f_unlock"
    /\ g_mutex' = NoThread
    /\ instance_id' = -1
    /\ former_pc' = "f_lock"
    /\ UNCHANGED <<n, initial, tank_queue, healer_queue, dps_queue, min_time,
                   max_time, instances, active_parties, all_players_queued,
                   main_pc, runs>>

\* --------------------------------------------------------- dungeon_run
\* get_random_time(): any value of [min_time, max_time]
DungeonStart(k) ==
    /\ k \in DOMAIN runs
    /\ runs[k].pc = "d_start"
    /\ \E t \in get_random_time :
          runs' = [runs EXCEPT ![k].time_in_dungeon = t, ![k].pc = "d_sleep"]
    /\ UNCHANGED <<n, initial, tank_queue, healer_queue, dps_queue, min_time,
                   max_time, instances, active_parties, all_players_queued,
                   g_mutex, main_pc, former_pc, instance_id>>

\* the sleep ends and the lock_guard takes g_mutex
DungeonLock(k) ==
    /\ k \in DOMAIN runs
    /\ runs[k].pc = "d_sleep"
    /\ g_mutex = NoThread
    /\ g_mutex' = RunThread(k)
    /\ runs' = [runs EXCEPT ![k].pc = "d_release"]
    /\ UNCHANGED <<n, initial, tank_queue, healer_queue, dps_queue, min_time,
                   max_time, instances, active_parties, all_players_queued,
                   main_pc, former_pc, instance_id>>

\* a release that also resets every other instance
DungeonRelease_all(k) ==
    /\ k \in DOMAIN runs
    /\ runs[k].pc = "d_release"
    /\ instances' = [i \in DOMAIN instances |->
                        [instances[i] EXCEPT !.status = "empty"]]
    /\ runs' = [runs EXCEPT ![k].pc = "d_served"]
    /\ UNCHANGED <<n, initial, tank_queue, healer_queue, dps_queue, min_time,
                   max_time, active_parties, all_players_queued, g_mutex,
                   main_pc, former_pc, instance_id>>

\* instances[instance_id].status = "empty"
DungeonRelease(k) ==
    /\ k \in DOMAIN runs
    /\ runs[k].pc = "d_release"
    /\ instances' = [instances EXCEPT ![runs[k].instance_id].status = "empty"]
    /\ runs' = [runs EXCEPT ![k].pc = "d_served"]
    /\ UNCHANGED <<n, initial, tank_queue, healer_queue, dps_queue, min_time,
                   max_time, active_parties, all_players_queued, g_mutex,
                   main_pc, former_pc, instance_id>>

\* instances[instance_id].parties_served++
DungeonServed(k) ==
    /\ k \in DOMAIN runs
    /\ runs[k].pc = "d_served"
    /\ instances' = [instances EXCEPT ![runs[k].instance_id].parties_served = @ + 1]
    /\ runs' = [runs EXCEPT ![k].pc = "d_time"]
    /\ UNCHANGED <<n, initial, tank_queue, healer_queue, dps_queue, min_time,
                   max_time, active_parties, all_players_queued, g_mutex,
                   main_pc, former_pc, instance_id>>

\* instances[instance_id].total_time_served += time_in_dungeon
DungeonTime(k) ==
    /\ k \in DOMAIN runs
    /\ runs[k].pc = "d_time"
    /\ instances' = [instances EXCEPT ![runs[k].instance_id].total_time_served =
                        AddedTime(@, runs[k].time_in_dungeon)]
    /\ runs' = [runs EXCEPT ![k].pc = "d_dec"]
    /\ UNCHANGED <<n, initial, tank_queue, healer_queue, dps_queue, min_time,
                   max_time, active_parties, all_players_queued, g_mutex,
                   main_pc, former_pc, instance_id>>

\* active_parties--, then the lock_guard is destroyed
DungeonDec(k) ==
    /\ k \in DOMAIN runs
    /\ runs[k].pc = "d_dec"
    /\ active_parties' = ReleasedCount
    /\ g_mutex' = NoThread
    /\ runs' = [runs EXCEPT ![k].pc = "d_notify"]
    /\ UNCHANGED <<n, initial, tank_queue, healer_queue, dps_queue, min_time,
                   max_time, instances, all_players_queued, main_pc, former_pc,
                   instance_id>>

\* cv.notify_all() after the lock has been released
DungeonNotify(k) ==
    /\ k \in DOMAIN runs
    /\ runs[k].pc = "d_notify"
    /\ main_pc' = Wake(main_pc)
    /\ former_pc' = Wake(former_pc)
    /\ runs' = [runs EXCEPT ![k].pc = "d_done"]
    /\ UNCHANGED <<n, initial, tank_queue, healer_queue, dps_queue, min_time,
                   max_time, instances, active_parties, all_players_queued,
                   g_mutex, instance_id>>

\* ------------------------------------------------- condition variable
\* condition_variable::wait may return without a notification
SpuriousWake ==
    /\ \/ main_pc = "m_waiting" /\ main_pc' = "m_woken" /\ former_pc' = former_pc
       \/ former_pc = "f_waiting" /\ former_pc' = "f_woken" /\ main_pc' = main_pc
    /\ UNCHANGED <<n, initial, tank_queue, healer_queue, dps_queue, min_time,
                   max_time, instances, active_parties, all_players_queued,
                   g_mutex, instance_id, runs>>

\* ---------------------------------------------------------------- Next
MainStep ==
    \/ MainSpawn
    \/ MainLock
    \/ MainSetQueued
    \/ MainNotify
    \/ MainWait
    \/ MainReacquire
    \/ MainJoin
    \/ MainSummary

FormerStep ==
    \/ FormerLock
    \/ FormerWait
    \/ FormerReacquire
    \/ FormerCheckExit
    \/ FormerFind
    \/ FormerConsume
    \/ FormerAssign
    \/ FormerInc
    \/ FormerSpawn
    \/ FormerUnlock

RunStep(k) ==
    \/ DungeonStart(k)
    \/ DungeonLock(k)
    \/ DungeonRelease(k)
    \/ DungeonServed(k)
    \/ DungeonTime(k)
    \/ DungeonDec(k)
    \/ DungeonNotify(k)

Next ==
    \/ MainStep
    \/ FormerStep
    \/ \E k \in DOMAIN runs : RunStep(k)
    \/ SpuriousWake

Spec == Init /\ [][Next]_vars

\* Every thread that can take a step infinitely often eventually takes it:
\* the scheduler runs every runnable thread and g_mutex is handed to every
\* thread that keeps asking for it.  A spurious wake-up is never owed.
Fairness ==
    /\ SF_vars(MainStep)
    /\ SF_vars(FormerStep)
    /\ \A k \in 1..MaxRuns : SF_vars(RunStep(k))

\* the liveness properties are checked on the bounded inputs
FairInit == BoundedInput /\ Constructed

FairSpec == FairInit /\ [][Next]_vars /\ Fairness

\* ------------------------------------------------------------ vocabulary
FormedGroups == Len(runs)

ActiveIds == {i \in DOMAIN instances : instances[i].status = "active"}

RECURSIVE SumServed(_)
SumServed(S) ==
    IF S = {} THEN 0
    ELSE LET i == CHOOSE x \in S : TRUE
         IN  instances[i].parties_served + SumServed(S \ {i})

Min(a, b) == IF a <= b THEN a ELSE b

\* main has passed former_thread.join()
MainPastJoin == main_pc \in {"m_summary", "m_done"}

\* main's cv.wait has returned
MainPastWait == main_pc \in {"m_join", "m_summary", "m_done"}

Terminated == former_pc = "f_done" /\ MainPastJoin

ScenarioA ==
    /\ n = 2
    /\ initial = [tank |-> 2, healer |-> 2, dps |-> 6]
    /\ min_time = 1
    /\ max_time = 1

ScenarioB == n = 1 /\ initial = [tank |-> 1, healer |-> 1, dps |-> 3]

ScenarioC == n = 1 /\ initial = [tank |-> 0, healer |-> 1, dps |-> 3]

ScenarioD == n = 3 /\ initial = [tank |-> 5, healer |-> 5, dps |-> 20]

\* main sits in join() with g_mutex held while party_former still needs it
JoinDeadlock ==
    /\ main_pc = "m_join"
    /\ g_mutex = MainThread
    /\ former_pc \in {"f_lock", "f_woken", "f_waiting"}

\* ------------------------------------------------------------------ C1
\* C1: under fair scheduling every execution terminates: party_former
\* returns, main's join returns and main reaches the final summary.
C1_EveryRunTerminates == <>Terminated

\* ------------------------------------------------------------------ C2
\* C2: in Scenario C (n = 1, queue (0, 1, 3)) every execution terminates
\* with no party formed.
C2_ScenarioCTerminates == ScenarioC => <>(Terminated /\ FormedGroups = 0)

\* ------------------------------------------------------------------ C3
\* C3: party_former has left its loop, or main's cv.wait has returned, only
\* in states with active_parties = 0, no party formable and no instance
\* "active"; both take that step only from such a state; and once
\* party_former has exited it stays exited and no further party is formed.
QueueNow == <<tank_queue, healer_queue, dps_queue>>

Quiet == active_parties = 0 /\ ~can_form_party /\ ActiveIds = {}

C3_NoPrematureTermination ==
    /\ []((former_pc = "f_done" \/ MainPastWait) => Quiet)
    /\ [][/\ (former_pc # "f_done" /\ former_pc' = "f_done") => Quiet
          /\ (main_pc = "m_wait" /\ main_pc' = "m_join") => Quiet
          /\ former_pc = "f_done" =>
                /\ former_pc' = "f_done"
                /\ Len(runs') = Len(runs)
                /\ QueueNow' = QueueNow
                /\ ActiveIds' = {}]_vars

C3_Witness ==
    /\ former_pc = "f_done"
    /\ main_pc = "m_join"
    /\ FormedGroups = 2
    /\ \A k \in DOMAIN runs : runs[k].pc = "d_done"

\* ------------------------------------------------------------------ C4
\* C4: the three counters are never negative and never increase, and every
\* change of them is one formation step that takes exactly (1, 1, 3) from a
\* queue holding at least (1, 1, 3).
C4_SupplyMonotonic ==
    /\ [](tank_queue >= 0 /\ healer_queue >= 0 /\ dps_queue >= 0)
    /\ [][/\ tank_queue' <= tank_queue
          /\ healer_queue' <= healer_queue
          /\ dps_queue' <= dps_queue
          /\ QueueNow' # QueueNow =>
                /\ tank_queue >= 1 /\ healer_queue >= 1 /\ dps_queue >= 3
                /\ former_pc = "f_consume"
                /\ tank_queue' = tank_queue - 1
                /\ healer_queue' = healer_queue - 1
                /\ dps_queue' = dps_queue - 3]_vars

C4_Witness ==
    /\ initial = [tank |-> 2, healer |-> 2, dps |-> 6]
    /\ QueueNow = <<0, 0, 0>>
    /\ former_pc = "f_assign"

\* ------------------------------------------------------------------ C5
\* C5: whenever g_mutex is free, the number of "active" instances equals
\* active_parties and no two dungeon_run threads that have not released yet
\* are bound to the same instance id.
Unreleased(k) == runs[k].pc \in {"d_start", "d_sleep", "d_release"}

C5_SlotExclusion ==
    g_mutex = NoThread =>
        /\ Cardinality(ActiveIds) = active_parties
        /\ \A j, k \in DOMAIN runs :
              (j # k /\ Unreleased(j) /\ Unreleased(k))
                  => runs[j].instance_id # runs[k].instance_id

C5_Witness ==
    /\ g_mutex = NoThread
    /\ active_parties = 2
    /\ \E j, k \in DOMAIN runs : j # k /\ Unreleased(j) /\ Unreleased(k)
    /\ \E k \in DOMAIN runs : runs[k].pc = "d_done"

\* ------------------------------------------------------------------ C6
\* C6: 0 <= active_parties <= n always; a formation step is taken only when
\* some instance is "empty"; while all n instances are "active" the queue
\* is left untouched, however much of it is formable.
C6_BoundedConcurrency ==
    /\ [](0 <= active_parties /\ active_parties <= n)
    /\ [](Cardinality(ActiveIds) <= n)
    /\ [](ScenarioD => Cardinality(ActiveIds) <= 3 /\ active_parties <= 3)
    /\ [][/\ QueueNow' # QueueNow => EmptyIds # {}
          /\ Cardinality(ActiveIds) = n =>
                (QueueNow' = QueueNow /\ ActiveIds' \subseteq ActiveIds)]_vars

C6_Witness ==
    /\ ScenarioD
    /\ Cardinality(ActiveIds) = n
    /\ active_parties = n
    /\ can_form_party
    /\ former_pc = "f_waiting"

\* ------------------------------------------------------------------ C7
\* C7: at main's final summary the number of parties formed is
\* g = min(T, H, D div 3) for the initial queue (T, H, D), parties_served
\* sums to g, the queue is (T - g, H - g, D - 3g) and no party is formable.
Groups0 == Min(initial.tank, Min(initial.healer, initial.dps \div 3))

C7_ExactGroupCount ==
    main_pc = "m_summary" =>
        /\ FormedGroups = Groups0
        /\ SumServed(DOMAIN instances) = Groups0
        /\ tank_queue = initial.tank - Groups0
        /\ healer_queue = initial.healer - Groups0
        /\ dps_queue = initial.dps - 3 * Groups0
        /\ ~can_form_party
        /\ (initial = [tank |-> 1, healer |-> 1, dps |-> 3]
               => FormedGroups = 1 /\ QueueNow = <<0, 0, 0>>)

C7_Witness ==
    /\ main_pc = "m_summary"
    /\ FormedGroups >= 2
    /\ dps_queue > 0

\* ------------------------------------------------------------------ C8
\* C8 as stated: in Scenario A, at the final summary two parties were
\* formed, one on instance 0 and one on instance 1, the queue is (0, 0, 0)
\* and both instances have parties_served = 1.
C8_ScenarioA_Original ==
    (ScenarioA /\ main_pc = "m_summary") =>
        /\ FormedGroups = 2
        /\ {runs[k].instance_id : k \in DOMAIN runs} = {0, 1}
        /\ QueueNow = <<0, 0, 0>>
        /\ \A i \in DOMAIN instances : instances[i].parties_served = 1

\* C8 as amended: in Scenario A, at the final summary two parties were
\* formed and the queue is (0, 0, 0); the first party ran on instance 0 and
\* the second on instance 1 or, when the first had already released, on
\* instance 0 again; parties_served is (1, 1) in the first case and (2, 0)
\* in the second, and every instance was busy one second per party served.
C8_ScenarioA ==
    (ScenarioA /\ main_pc = "m_summary") =>
        /\ FormedGroups = 2
        /\ QueueNow = <<0, 0, 0>>
        /\ runs[1].instance_id = 0
        /\ runs[2].instance_id \in {0, 1}
        /\ runs[2].instance_id = 1 =>
              instances[0].parties_served = 1 /\ instances[1].parties_served = 1
        /\ runs[2].instance_id = 0 =>
              instances[0].parties_served = 2 /\ instances[1].parties_served = 0
        /\ \A i \in DOMAIN instances :
              instances[i].total_time_served = instances[i].parties_served

C8_Witness ==
    /\ ScenarioA
    /\ main_pc = "m_summary"
    /\ instances[0].parties_served = 2

\* ------------------------------------------------------------------ C9
\* C9: in Scenario B (n = 1, queue (1, 1, 3)) at most one party is formed,
\* on instance 0; the quiescence predicate is false while its dungeon_run
\* has not released; after the release the queue is (0, 0, 0) and
\* active_parties is 0; and the system terminates.
C9_Safety ==
    /\ FormedGroups <= 1
    /\ \A k \in DOMAIN runs :
          /\ runs[k].instance_id = 0
          /\ runs[k].pc \in {"d_start", "d_sleep", "d_release", "d_served",
                           "d_time", "d_dec"}
                => ~MainWaitPred
          /\ runs[k].pc \in {"d_notify", "d_done"}
                => QueueNow = <<0, 0, 0>> /\ active_parties = 0

C9_SafetyHolds == ScenarioB => C9_Safety

C9_ScenarioB ==
    ScenarioB => ([]C9_Safety /\ <>(Terminated /\ FormedGroups = 1))

\* ----------------------------------------------------------------- C10
\* C10: every instance that is "active" is eventually "empty" again, and
\* while some instance is "active" g_mutex is never held for ever.
C10_RunsComplete ==
    /\ \A i \in 0..(MaxN - 1) :
          (i \in ActiveIds) ~> (i \in EmptyIds)
    /\ (ActiveIds # {} /\ g_mutex # NoThread) ~> (g_mutex = NoThread)

C10_Witness ==
    /\ g_mutex = NoThread
    /\ \E i \in EmptyIds : instances[i].parties_served = 1
    /\ ActiveIds # {}

\* ----------------------------------------------------------------- C11
\* C11: whenever the recipe (1, 1, 3) is in the queue and some instance is
\* "empty", party_former eventually takes a party from the queue; it does
\* not stay blocked in cv.wait in such a state.
RecipeAvailable == tank_queue >= 1 /\ healer_queue >= 1 /\ dps_queue >= 3

C11_NoLostWakeup ==
    /\ \A t \in 0..MaxTank :
          (RecipeAvailable /\ EmptyIds # {} /\ tank_queue = t) ~> (tank_queue < t)
    /\ (RecipeAvailable /\ EmptyIds # {} /\ former_pc = "f_waiting")
          ~> (former_pc # "f_waiting")

\* party_former is blocked while a released slot and formable supply wait
\* for the notify_all that dungeon_run issues after unlocking
C11_Witness ==
    /\ RecipeAvailable
    /\ EmptyIds # {}
    /\ former_pc = "f_waiting"
    /\ g_mutex = NoThread
    /\ \E k \in DOMAIN runs : runs[k].pc = "d_notify"

\* ----------------------------------------------------------------- C12
\* C12: party_former takes nothing from the queue and assigns no instance
\* while all_players_queued is still false.
C12_NoFormationBeforeReady ==
    [][(QueueNow' # QueueNow \/ ActiveIds' # ActiveIds \/ Len(runs') # Len(runs))
          => all_players_queued]_vars

\* ----------------------------------------------------------------- C13
\* C13: a formation step turns "active" the instance with the smallest id
\* among the "empty" ones, whatever the order of the earlier releases, and
\* find_free_instance is -1 exactly when no instance is "empty".
C13_LowestFreeSlot ==
    /\ [](find_free_instance = -1 <=> EmptyIds = {})
    /\ [](find_free_instance # -1 =>
             /\ find_free_instance \in EmptyIds
             /\ \A j \in EmptyIds : find_free_instance <= j)
    /\ [][\A i \in DOMAIN instances :
             (i \in EmptyIds /\ i \in ActiveIds') =>
                 /\ former_pc = "f_assign"
                 /\ instance_id = i
                 /\ \A j \in EmptyIds : i <= j]_vars

\* instance 1 is chosen again while instance 0 is still on its first run
\* and instance 2 is free
C13_Witness ==
    /\ former_pc = "f_inc"
    /\ instance_id = 1
    /\ instances[1].parties_served = 1
    /\ instances[0].status = "active"
    /\ instances[0].parties_served = 0
    /\ instances[2].status = "empty"

\* ----------------------------------------------------------------- C14
\* C14: an instance's status changes only "empty" -> "active", in a
\* formation step applied to an "empty" instance, and "active" -> "empty",
\* in a release applied to an "active" instance; parties_served and
\* total_time_served never decrease and change only in a release, by 1 and
\* by the run's duration; every dungeon_run releases exactly once.
Assigning == former_pc = "f_assign" /\ former_pc' = "f_inc"

Moves(k, from, to) == runs[k].pc = from /\ runs'[k].pc = to

\* the dungeon_run threads bound to instance i whose position is in pcs
RunsOn(i, pcs) == {k \in DOMAIN runs : runs[k].instance_id = i /\ runs[k].pc \in pcs}

C14_InstanceLifecycle ==
    /\ [](\A i \in DOMAIN instances :
             /\ instances[i].status \in {"empty", "active"}
             /\ instances[i].parties_served =
                   Cardinality(RunsOn(i, {"d_time", "d_dec", "d_notify", "d_done"})))
    /\ [][/\ Assigning => instances[instance_id].status = "empty"
          /\ \A k \in DOMAIN runs :
                Moves(k, "d_release", "d_served")
                    => instances[runs[k].instance_id].status = "active"
          /\ \A i \in DOMAIN instances :
                /\ instances'[i].status # instances[i].status =>
                      \/ /\ i \in EmptyIds /\ i \in ActiveIds'
                         /\ Assigning /\ instance_id = i
                      \/ /\ i \in ActiveIds /\ i \in EmptyIds'
                         /\ \E k \in RunsOn(i, {"d_release"}) :
                               Moves(k, "d_release", "d_served")
                /\ instances'[i].parties_served # instances[i].parties_served =>
                      /\ instances'[i].parties_served = instances[i].parties_served + 1
                      /\ \E k \in RunsOn(i, {"d_served"}) : Moves(k, "d_served", "d_time")
                /\ instances'[i].total_time_served # instances[i].total_time_served =>
                      \E k \in RunsOn(i, {"d_time"}) :
                         /\ Moves(k, "d_time", "d_dec")
                         /\ instances'[i].total_time_served =
                               instances[i].total_time_served + runs[k].time_in_dungeon
                         /\ runs[k].time_in_dungeon >= 0]_vars

\* an instance that has served a party is occupied again
C14_Witness ==
    \E i \in ActiveIds :
        /\ instances[i].parties_served >= 1
        /\ instances[i].total_time_served >= 1
        /\ RunsOn(i, {"d_release"}) # {}

\* ----------------------------------------------------------------- C15
\* C15 as stated: once the recipe is unavailable it stays unavailable, and
\* once active_parties = 0 with the recipe unavailable holds, it holds in
\* the next state too, no party is formed and no instance turns "active".
QuiescencePred == active_parties = 0 /\ ~RecipeAvailable

C15_QuiescenceStable_Original ==
    [][/\ ~RecipeAvailable => ~RecipeAvailable'
       /\ QuiescencePred =>
             /\ QuiescencePred'
             /\ QueueNow' = QueueNow
             /\ ActiveIds' \subseteq ActiveIds]_vars

\* C15 as amended: once the recipe is unavailable it stays unavailable; and
\* once the predicate holds in a state where party_former is not between
\* taking a party from the queue and active_parties++ (in particular when
\* it is evaluated with g_mutex held), it holds from then on, no party is
\* formed and no instance turns "active".
MidFormation == former_pc \in {"f_assign", "f_inc"}

C15_QuiescenceStable ==
    [][/\ ~RecipeAvailable => ~RecipeAvailable'
       /\ (QuiescencePred /\ ~MidFormation) =>
             /\ QuiescencePred'
             /\ ~MidFormation'
             /\ QueueNow' = QueueNow
             /\ Len(runs') = Len(runs)
             /\ ActiveIds' \subseteq ActiveIds]_vars

\* quiescence reached after two parties, party_former still to observe it
C15_Witness ==
    /\ QuiescencePred
    /\ ~MidFormation
    /\ FormedGroups >= 2
    /\ former_pc = "f_wait"

\* ----------------------------------------------------------------- C16
\* C16: a release leaves the queue and every other instance unchanged; a
\* formation leaves every instance's statistics and every other instance's
\* status unchanged; main changes no counter, status or statistic.
InRelease(k) ==
    /\ runs[k].pc \in {"d_release", "d_served", "d_time", "d_dec"}
    /\ runs'[k].pc # runs[k].pc

InFormation ==
    /\ former_pc \in {"f_consume", "f_assign", "f_inc", "f_spawn"}
    /\ former_pc' # former_pc

C16_FrameConditions ==
    [][/\ \A k \in DOMAIN runs :
             InRelease(k) =>
                /\ QueueNow' = QueueNow
                /\ \A j \in DOMAIN instances :
                      j # runs[k].instance_id => instances'[j] = instances[j]
       /\ InFormation =>
             /\ \A i \in DOMAIN instances :
                   /\ instances'[i].parties_served = instances[i].parties_served
                   /\ instances'[i].total_time_served = instances[i].total_time_served
                   /\ i # instance_id => instances'[i].status = instances[i].status
       /\ main_pc' # main_pc =>
             /\ QueueNow' = QueueNow
             /\ instances' = instances
             /\ active_parties' = active_parties
       /\ DOMAIN instances' = DOMAIN instances]_vars

\* a release has just been applied while another instance is occupied and
\* the queue still holds players
C16_Witness ==
    /\ \E k \in DOMAIN runs : runs[k].pc = "d_served"
    /\ ActiveIds # {}
    /\ \E i \in EmptyIds : instances[i].parties_served >= 1
    /\ tank_queue >= 1

\* ----------------------------------------------------------------- C17
\* C17: whenever g_mutex is free, the players taken from the queue are
\* exactly those of the parties that occupy an instance or were served:
\* T - tank_queue = H - healer_queue = (D - dps_queue) / 3
\*   = active_parties + sum of parties_served.
C17_Conservation ==
    g_mutex = NoThread =>
        LET g == active_parties + SumServed(DOMAIN instances)
        IN  /\ initial.tank - tank_queue = g
            /\ initial.healer - healer_queue = g
            /\ initial.dps - dps_queue = 3 * g
            /\ g = FormedGroups

C17_Witness ==
    /\ g_mutex = NoThread
    /\ active_parties >= 2
    /\ SumServed(DOMAIN instances) >= 2
    /\ tank_queue >= 1

\* ----------------------------------------------------------------- C18
\* C18 as stated: in every state every instance has
\* min_time * parties_served <= total_time_served <= max_time * parties_served
\* and total_time_served is the sum of the durations of the runs released
\* on it.
RECURSIVE SumDurations(_)
SumDurations(S) ==
    IF S = {} THEN 0
    ELSE LET k == CHOOSE x \in S : TRUE
         IN  runs[k].time_in_dungeon + SumDurations(S \ {k})

ReleasedOn(i) == RunsOn(i, {"d_dec", "d_notify", "d_done"})

C18_BusyTimeBounds_Original ==
    \A i \in DOMAIN instances :
        /\ min_time * instances[i].parties_served <= instances[i].total_time_served
        /\ instances[i].total_time_served <= max_time * instances[i].parties_served
        /\ instances[i].total_time_served = SumDurations(ReleasedOn(i))

\* C18 as amended: in every state total_time_served is at most
\* max_time * parties_served and is the sum of the durations of the runs
\* that have completed their update of the instance; the lower bound
\* min_time * parties_served <= total_time_served holds whenever no
\* dungeon_run of the instance is between parties_served++ and
\* total_time_served += (so whenever g_mutex is not held by a dungeon_run).
C18_BusyTimeBounds ==
    \A i \in DOMAIN instances :
        /\ instances[i].total_time_served <= max_time * instances[i].parties_served
        /\ instances[i].total_time_served = SumDurations(ReleasedOn(i))
        /\ RunsOn(i, {"d_time"}) = {} =>
              min_time * instances[i].parties_served <= instances[i].total_time_served
        /\ (\A k \in DOMAIN runs : g_mutex # RunThread(k)) => RunsOn(i, {"d_time"}) = {}

C18_Witness ==
    /\ min_time < max_time
    /\ g_mutex = NoThread
    /\ \E i \in DOMAIN instances :
          /\ instances[i].parties_served = 2
          /\ instances[i].total_time_served = min_time + max_time

====
